---- MODULE Spec2Model ----
(***************************************************************************)
(* url_checker: a single-shot batch job that sends a HEAD request to every *)
(* configured download, follows redirects, collects the failing targets    *)
(* into one report, mails the report and exits with the failure count.     *)
(*                                                                         *)
(* Strings that the program builds (the detail messages, the subject, the  *)
(* body) are modelled as sequences of string tokens, so that formatting    *)
(* and joining are computed and not assumed.                               *)
(***************************************************************************)
EXTENDS Integers, Sequences, FiniteSets, TLC

VARIABLES
    pc,              \* position of main(): "start", "for", "while", "exit"
    environ,         \* os.environ: which of HOME, USER are set
    server,          \* the responses the remote servers may give in this run
    config,          \* content of the configuration file, then the dict
    user_agent,      \* main(): user_agent
    i,               \* main(): index of the download the for loop is at
    errors,          \* main(): errors
    msgs,            \* main(): msgs
    names,           \* main(): names
    response,        \* validate_url(): response
    checks_for_3xx,  \* validate_url(): checks_for_3xx
    sent_requests,   \* the HEAD requests of the current (last) check, in order
    first_status,    \* status of the response to the first request of the check
    redirects_seen,  \* leading responses of the check that were 300..399 with Location
    fifth_hop,       \* status of the response to the 5th follow-up request
    warnings,        \* "Too many redirects" warnings logged by the check
    returned,        \* what the current (last) validate_url call returned
    outcomes,        \* per checked download: its index and what its check gave
    send_calls,      \* number of calls of send_email
    outbox,          \* messages handed to the SMTP server
    send_failed,     \* the step of send_email that raised, "none" if none did
    exit_code        \* exit status of the process

vars == <<pc, environ, server, config, user_agent, i, errors, msgs, names,
          response, checks_for_3xx, sent_requests, first_status,
          redirects_seen, fifth_hop, warnings, returned, outcomes, send_calls, outbox,
          send_failed, exit_code>>

----------------------------------------------------------------------------
(* Bounds of the model *)

\* longest list of downloads of the enumerated configurations
MaxTargets == 2

(* Program constants *)

\* validate_url: max_3xx_checks = 5
max_3xx_checks == 5

\* validate_config: config['timeout'] = 5
default_timeout == 5

\* sys.exit(errors): the exit status of a process is 8 bits wide
ExitStatusBits == 8

\* sys.exit(1) of main() on a configuration error
config_error_code == 1

----------------------------------------------------------------------------
(* Values *)

Absent == "<absent>"
Traceback == "Traceback (most recent call last): ..."

\* traceback.format_exc(): the text of the traceback, whose last line ends
\* with a newline like every line of it
format_exc == <<Traceback, "\n">>

\* the status codes the servers of the model answer with
Statuses == {200, 300, 398, 399, 404}

\* a response: its status code and whether it has a Location header
\* (raised is FALSE: requests.head() returned it)
Responses == [raised : {FALSE}, status_code : Statuses, location : BOOLEAN]

NoResponse == [raised |-> FALSE, status_code |-> 0, location |-> FALSE]

\* requests.head() raising (connection error, timeout, ...)
Raised == [raised |-> TRUE, status_code |-> 0, location |-> FALSE]

\* what requests.head() can do: return a response or raise
HeadResults == Responses \cup {Raised}

\* the download descriptors of the enumerated configurations
Targets == {[name |-> "A", url |-> "http://a"], [name |-> "B", url |-> "http://b"]}

RECURSIVE SeqsUpTo(_, _)
SeqsUpTo(S, n) ==
    IF n = 0 THEN {<<>>}
    ELSE LET shorter == SeqsUpTo(S, n - 1)
         IN  shorter \cup {Append(s, x) : s \in {t \in shorter : Len(t) = n - 1}, x \in S}


----------------------------------------------------------------------------
(* The configuration file and the environment *)

RequiredKeys == {"smtp_server", "smtp_port", "email_address", "email_password",
                 "recipients", "downloads"}

OptionalKeys == {"timeout", "user_agent"}

\* a configuration file with the six required keys: its downloads and the
\* optional keys it has (keys: the keys present; an absent key's field is unused)
ConfigOf(downloads, optional) ==
    [file           |-> "ok",
     keys           |-> RequiredKeys \cup optional,
     smtp_server    |-> "smtp.example.org",
     smtp_port      |-> 587,
     email_address  |-> "checker@example.org",
     email_password |-> "secret",
     recipients     |-> <<"ops@example.org", "dev@example.org">>,
     downloads      |-> downloads,
     timeout        |-> IF "timeout" \in optional THEN 9 ELSE 0,
     user_agent     |-> IF "user_agent" \in optional THEN "custom agent" ELSE Absent]

ValidConfigs ==
    {ConfigOf(d, o) : d \in SeqsUpTo(Targets, MaxTargets),
                      o \in {{}, OptionalKeys}}

SampleConfig == ConfigOf(<<[name |-> "A", url |-> "http://a"]>>, {})

\* configurations that validate_config or load_config must reject
InvalidConfigs ==
    {[SampleConfig EXCEPT !.keys = @ \ {k}] : k \in RequiredKeys}
    \cup {[SampleConfig EXCEPT !.recipients = <<>>],
          [SampleConfig EXCEPT !.downloads = <<[name |-> Absent, url |-> "http://a"]>>],
          [SampleConfig EXCEPT !.downloads = <<[name |-> "A", url |-> Absent]>>],
          [SampleConfig EXCEPT !.file = "empty"],
          [SampleConfig EXCEPT !.file = "unreadable"]}

Configs == ValidConfigs \cup InvalidConfigs

\* a configuration with as many downloads as there are exit statuses
LongConfig ==
    ConfigOf([n \in 1..(2 ^ ExitStatusBits) |-> [name |-> "A", url |-> "http://a"]], {})

Environs == {{"HOME", "USER"}, {"HOME"}, {"USER"}}

----------------------------------------------------------------------------
(* validate_config *)

\* the errors validate_config logs for the download entries: one for each
\* entry without 'url' and one for each entry without 'name'
download_errors(downloads) ==
    {<<n, k>> \in (1..Len(downloads)) \X {"url", "name"} :
        IF k = "url" THEN downloads[n].url = Absent ELSE downloads[n].name = Absent}

\* a slip of config_errors: the recipients list is not looked at
config_errors_without_recipients(c) ==
    Cardinality(RequiredKeys \ c.keys)
    + (IF "downloads" \in c.keys
       THEN Cardinality(download_errors(c.downloads))
       ELSE 0)

\* the number of errors validate_config logs for a configuration dict
config_errors(c) ==
    Cardinality(RequiredKeys \ c.keys)
    + (IF "downloads" \in c.keys
       THEN Cardinality(download_errors(c.downloads))
       ELSE 0)
    + (IF "recipients" \in c.keys /\ Len(c.recipients) < 1 THEN 1 ELSE 0)

\* validate_config's return value: False for None, else errors == 0
validate_config(c) ==
    IF c.file = "empty" THEN FALSE ELSE config_errors(c) = 0

\* the dict after validate_config: an absent timeout is filled with 5
config_after_validation(c) ==
    IF c.file = "ok" /\ "timeout" \notin c.keys
    THEN [c EXCEPT !.keys = @ \cup {"timeout"}, !.timeout = default_timeout]
    ELSE c

\* config.get('user_agent', "%s's URL availability checker" % os.environ['USER'])
user_agent_of(c) ==
    IF "user_agent" \in c.keys THEN c.user_agent ELSE "<USER>'s URL availability checker"

----------------------------------------------------------------------------
(* validate_url, piecewise *)

\* range(a, b) of Python: a, a + 1, ..., b - 1
range(a, b) == a..(b - 1)

\* a slip of in_3xx_range: every status from 300 on is taken for a redirect
in_range_from_300(status_code) == status_code >= 300

\* response.status_code in range(300, 399)
in_3xx_range(status_code) == status_code \in range(300, 399)

\* a slip of loop_condition: one more turn of the loop is allowed
loop_condition_one_more(resp, checks) ==
    in_3xx_range(resp.status_code) /\ checks <= max_3xx_checks + 1

\* the condition of the while loop
loop_condition(resp, checks) ==
    in_3xx_range(resp.status_code) /\ checks <= max_3xx_checks

\* a slip of has_location: the Location header is taken to be always there
has_location_always(resp) == TRUE

\* 'Location' in response.headers
has_location(resp) == resp.location

\* if checks_for_3xx >= max_3xx_checks: logging.warning(...)
logs_warning(checks) == checks >= max_3xx_checks

\* the first request: requests.head(url, timeout=timeout, headers=headers)
first_request(url, timeout, agent) ==
    [url |-> url, timeout |-> timeout, headers |-> {<<"User-Agent", agent>>}]

\* a slip of followup_request: the timeout is not handed on, the default is used
followup_request_default_timeout(timeout) ==
    [url |-> "<Location>", timeout |-> default_timeout, headers |-> {}]

\* a follow-up: requests.head(response.headers['Location'], timeout=timeout)
followup_request(timeout) ==
    [url |-> "<Location>", timeout |-> timeout, headers |-> {}]

----------------------------------------------------------------------------
(* The report of main() *)

\* a slip of is_failure: only the 4xx and 5xx codes count as failures
is_failure_from_400(status_code) == status_code >= 400

\* if status_code != 200
is_failure(status_code) == status_code # 200

\* the message main() appends for a status other than 200
status_detail(name, status_code, url) ==
    <<name, " may not be available. An HTTP ", ToString(status_code),
      " status code was received when sending a HEAD request.\nURL: ", url>>

\* the message main() appends when validate_url raised
exception_detail(name, url) ==
    <<name, " may not be available. An exception was raised while sending a HEAD",
      " request to the URL below.\nURL: ", url, "\nException: ">> \o format_exc

\* sep.join of parts[lo..hi], each part a sequence of tokens (computed by
\* halving the range, which keeps the evaluation shallow on long lists)
RECURSIVE join_range(_, _, _, _)
join_range(sep, parts, lo, hi) ==
    IF lo > hi THEN <<>>
    ELSE IF lo = hi THEN parts[lo]
    ELSE LET mid == (lo + hi) \div 2
         IN  join_range(sep, parts, lo, mid) \o <<sep>>
             \o join_range(sep, parts, mid + 1, hi)

\* sep.join(parts)
join(sep, parts) == join_range(sep, parts, 1, Len(parts))

\* a sequence of strings as a sequence of one-token parts
as_parts(strings) == [n \in 1..Len(strings) |-> <<strings[n]>>]

\* a slip of email_message: the Subject is the software text alone
email_message_plain_subject(software, body, recipients, sender) ==
    [Subject |-> software,
     From    |-> sender,
     To      |-> join(", ", as_parts(recipients)),
     content |-> body]

\* the EmailMessage send_email builds
email_message(software, body, recipients, sender) ==
    [Subject |-> software \o <<" unavailable">>,
     From    |-> sender,
     To      |-> join(", ", as_parts(recipients)),
     content |-> body]

\* the steps of send_email that can raise
SmtpSteps == {"connect", "ehlo", "starttls", "login", "send_message", "quit"}

\* a slip of report_is_sent: the mail is sent whatever the report holds
report_always_sent(m) == TRUE

\* if msgs: (the report is sent when it has an entry)
report_is_sent(m) == m # <<>>

\* sys.exit(errors): the exit status the parent process sees
exit_status(n) == n % (2 ^ ExitStatusBits)

\* a slip of exit_after_send: an exception of send_email is not caught and
\* ends the process like any uncaught exception, with status 1
exit_after_send_uncaught(n, failed) ==
    IF failed # "none" THEN 1 ELSE exit_status(n)

\* the exit status of main() after the mail: an exception of send_email is
\* caught and logged, then sys.exit(errors)
exit_after_send(n, failed) == exit_status(n)

\* the download the for loop goes to after the one at index n
next_download(n) == n + 1

----------------------------------------------------------------------------
(* The run *)

NoReturn == [state |-> "none", status_code |-> 0]

\* the state before main() runs, for a configuration file, an environment
\* and a set of behaviours of the remote servers
InitWith(c, env, srv) ==
    /\ pc = "start"
    /\ environ = env
    /\ server = srv
    /\ config = c
    /\ user_agent = Absent
    /\ i = 0
    /\ errors = 0
    /\ msgs = <<>>
    /\ names = <<>>
    /\ response = NoResponse
    /\ checks_for_3xx = 0
    /\ sent_requests = <<>>
    /\ first_status = 0
    /\ redirects_seen = 0
    /\ fifth_hop = 0
    /\ warnings = 0
    /\ returned = NoReturn
    /\ outcomes = <<>>
    /\ send_calls = 0
    /\ outbox = <<>>
    /\ send_failed = "none"
    /\ exit_code = -1

Init == \E c \in Configs, env \in Environs : InitWith(c, env, HeadResults)

\* a server that answers every request with 404 Not Found
NotFoundServer == {[raised |-> FALSE, status_code |-> 404, location |-> FALSE]}

\* the runs of Init, and the run over LongConfig against NotFoundServer
InitLong ==
    \/ Init
    \/ InitWith(LongConfig, {"HOME", "USER"}, NotFoundServer)

\* redirect class of HTTP: the 3xx status codes
IsRedirectClass(status_code) == status_code \in 300..399

\* main() up to the for loop: load_config, validate_config, user_agent.
\* A KeyError of os.environ is not caught and ends the process with status 1.
Startup ==
    /\ pc = "start"
    /\ LET loaded    == "HOME" \in environ /\ config.file # "unreadable"
           validated == IF loaded THEN config_after_validation(config) ELSE config
           proceeds  == loaded /\ validate_config(config)
                        /\ "USER" \in environ
       IN  /\ config' = validated
           /\ IF proceeds
              THEN /\ pc' = "for"
                   /\ user_agent' = user_agent_of(validated)
                   /\ i' = 1
                   /\ exit_code' = exit_code
              ELSE /\ pc' = "exit"
                   /\ exit_code' = config_error_code
                   /\ UNCHANGED <<user_agent, i>>
    /\ UNCHANGED <<environ, server, errors, msgs, names, response, checks_for_3xx,
                   sent_requests, first_status, redirects_seen, fifth_hop, warnings, returned,
                   outcomes, send_calls, outbox, send_failed>>

\* a slip of RecordException: the download is recorded and then tried again
RecordExceptionAndRetry ==
    /\ errors' = errors + 1
    /\ names' = Append(names, config.downloads[i].name)
    /\ msgs' = Append(msgs, exception_detail(config.downloads[i].name,
                                             config.downloads[i].url))
    /\ returned' = [state |-> "raised", status_code |-> 0]
    /\ outcomes' = Append(outcomes, [index |-> i, raised |-> TRUE, status_code |-> 0])
    /\ i' = i
    /\ pc' = "for"

\* a slip of RecordException: the download is recorded, then the exception
\* ends the loop instead of letting it go on
RecordExceptionAndStop ==
    /\ errors' = errors + 1
    /\ names' = Append(names, config.downloads[i].name)
    /\ msgs' = Append(msgs, exception_detail(config.downloads[i].name,
                                             config.downloads[i].url))
    /\ returned' = [state |-> "raised", status_code |-> 0]
    /\ outcomes' = Append(outcomes, [index |-> i, raised |-> TRUE, status_code |-> 0])
    /\ i' = Len(config.downloads) + 1
    /\ pc' = "for"

\* a slip of RecordException: the download is recorded but not counted
RecordExceptionUncounted ==
    /\ errors' = errors
    /\ names' = Append(names, config.downloads[i].name)
    /\ msgs' = Append(msgs, exception_detail(config.downloads[i].name,
                                             config.downloads[i].url))
    /\ returned' = [state |-> "raised", status_code |-> 0]
    /\ outcomes' = Append(outcomes, [index |-> i, raised |-> TRUE, status_code |-> 0])
    /\ i' = next_download(i)
    /\ pc' = "for"

\* the except clause of the for loop: the download at index i is recorded
\* with the exception detail and the loop goes on
RecordException ==
    /\ errors' = errors + 1
    /\ names' = Append(names, config.downloads[i].name)
    /\ msgs' = Append(msgs, exception_detail(config.downloads[i].name,
                                             config.downloads[i].url))
    /\ returned' = [state |-> "raised", status_code |-> 0]
    /\ outcomes' = Append(outcomes, [index |-> i, raised |-> TRUE, status_code |-> 0])
    /\ i' = next_download(i)
    /\ pc' = "for"

\* the count of leading redirect-class responses with a Location header,
\* after the response r to the request number n of the check
SeenAfter(r, n) ==
    IF redirects_seen = n - 1 /\ IsRedirectClass(r.status_code) /\ r.location
    THEN redirects_seen + 1
    ELSE redirects_seen

\* the for loop takes the next download and validate_url sends its first
\* HEAD request, which returns a response or raises
HeadFirst ==
    /\ pc = "for"
    /\ i <= Len(config.downloads)
    /\ sent_requests' = <<first_request(config.downloads[i].url, config.timeout,
                                        user_agent)>>
    /\ warnings' = 0
    /\ fifth_hop' = 0
    /\ \E r \in server :
          IF r.raised
          THEN /\ RecordException
               /\ response' = NoResponse
               /\ checks_for_3xx' = 0
               /\ first_status' = 0
               /\ redirects_seen' = 0
          ELSE /\ response' = r
               /\ checks_for_3xx' = 0
               /\ first_status' = r.status_code
               /\ redirects_seen' = IF IsRedirectClass(r.status_code) /\ r.location
                                    THEN 1 ELSE 0
               /\ returned' = NoReturn
               /\ pc' = "while"
               /\ UNCHANGED <<i, errors, msgs, names, outcomes>>
    /\ UNCHANGED <<environ, server, config, user_agent, send_calls, outbox,
                   send_failed, exit_code>>

\* one turn of the while loop: the response is in range, the cap is not
\* passed and there is a Location header, so a HEAD request goes to it
FollowLocation ==
    /\ pc = "while"
    /\ loop_condition(response, checks_for_3xx)
    /\ has_location(response)
    /\ sent_requests' = Append(sent_requests, followup_request(config.timeout))
    /\ \E r \in server :
          IF r.raised
          THEN /\ RecordException
               /\ UNCHANGED <<response, checks_for_3xx, redirects_seen, fifth_hop>>
          ELSE /\ response' = r
               /\ checks_for_3xx' = checks_for_3xx + 1
               /\ redirects_seen' = SeenAfter(r, Len(sent_requests) + 1)
               /\ fifth_hop' = IF checks_for_3xx + 1 = max_3xx_checks
                               THEN r.status_code ELSE fifth_hop
               /\ UNCHANGED <<pc, i, errors, msgs, names, returned, outcomes>>
    /\ UNCHANGED <<environ, server, config, user_agent, first_status, warnings,
                   send_calls, outbox, send_failed, exit_code>>

\* the while loop ends (condition false, or no Location header: break),
\* validate_url logs its warning and returns the status code, and main()
\* records the download when the status is not 200
ReturnStatus ==
    /\ pc = "while"
    /\ ~(loop_condition(response, checks_for_3xx) /\ has_location(response))
    /\ warnings' = IF logs_warning(checks_for_3xx) THEN warnings + 1 ELSE warnings
    /\ returned' = [state |-> "value", status_code |-> response.status_code]
    /\ outcomes' = Append(outcomes, [index |-> i, raised |-> FALSE,
                                     status_code |-> response.status_code])
    /\ IF is_failure(response.status_code)
       THEN /\ errors' = errors + 1
            /\ names' = Append(names, config.downloads[i].name)
            /\ msgs' = Append(msgs, status_detail(config.downloads[i].name,
                                                  response.status_code,
                                                  config.downloads[i].url))
       ELSE UNCHANGED <<errors, names, msgs>>
    /\ i' = next_download(i)
    /\ pc' = "for"
    /\ UNCHANGED <<environ, server, config, user_agent, response, checks_for_3xx,
                   sent_requests, first_status, redirects_seen, fifth_hop,
                   send_calls, outbox, send_failed, exit_code>>

\* after the for loop: the report is mailed when it has an entry (a failure
\* of send_email is logged only), and the process exits with errors
Finish ==
    /\ pc = "for"
    /\ i > Len(config.downloads)
    /\ \E failed \in (IF report_is_sent(msgs) THEN SmtpSteps ELSE {}) \cup {"none"} :
          /\ IF report_is_sent(msgs)
             THEN /\ send_calls' = send_calls + 1
                  /\ outbox' = IF failed \in {"none", "quit"}
                                THEN Append(outbox,
                                            email_message(join(", ", as_parts(names)),
                                                          join("\n\n", msgs),
                                                          config.recipients,
                                                          config.email_address))
                                ELSE outbox
             ELSE UNCHANGED <<send_calls, outbox>>
          /\ send_failed' = failed
          /\ exit_code' = exit_after_send(errors, failed)
    /\ pc' = "exit"
    /\ UNCHANGED <<environ, server, config, user_agent, i, errors, msgs, names,
                   response, checks_for_3xx, sent_requests, first_status, redirects_seen,
                   fifth_hop, warnings, returned, outcomes>>

Next == Startup \/ HeadFirst \/ FollowLocation \/ ReturnStatus \/ Finish

Spec == Init /\ [][Next]_vars

\* the process runs on: a started program takes its next step
FairSpec == Spec /\ WF_vars(Next)

SpecLong == InitLong /\ [][Next]_vars

----------------------------------------------------------------------------
(* Vocabulary of the properties *)

\* main() went through its for loop and exited at its last line
Completed == pc = "exit" /\ i >= 1

\* the check of a download failed: it raised or gave a status other than 200
Failed(o) == o.raised \/ o.status_code # 200

FailedOutcomes == SelectSeq(outcomes, Failed)

FailedTargets == Len(FailedOutcomes)

\* the number of responses the current (last) check received
Received ==
    IF returned.state = "raised" THEN Len(sent_requests) - 1 ELSE Len(sent_requests)

\* the number of follow-up requests the current (last) check sent
FollowUps == IF sent_requests = <<>> THEN 0 ELSE Len(sent_requests) - 1

\* the downloads were checked one after the other, each once, in the order
\* of the configuration
CheckedInOrder == \A n \in 1..Len(outcomes) : outcomes[n].index = n

----------------------------------------------------------------------------
(* Properties *)

\* C1: a run of main() that completes exits with a code equal to the number
\* of downloads whose check failed, and with 0 exactly when none failed.
C1_ExitCodeIsFailureCount ==
    Completed => /\ exit_code = FailedTargets
                 /\ (exit_code = 0 <=> FailedTargets = 0)

\* C2: a failing download never aborts the run: the downloads are checked
\* once each, in configuration order, and a run that entered the for loop
\* goes on to exit with every download checked.
C2_EveryTargetChecked ==
    /\ [](CheckedInOrder /\ (pc \in {"for", "while"} => Len(outcomes) = i - 1))
    /\ (pc = "for") ~> (pc = "exit" /\ Len(outcomes) = Len(config.downloads))

\* a run in which the first download raised and the second was checked after it
C2_Witness ==
    /\ Completed
    /\ Len(outcomes) = 2
    /\ outcomes[1].raised
    /\ outcomes[2].index = 2

\* C3: send_email is called at most once, only after every download was
\* checked, and if and only if a download failed; with no failing download
\* no mail is sent and the process exits 0.
C3_OneEmailIffFailure ==
    /\ send_calls <= 1
    /\ send_calls = 1 => (pc = "exit" /\ Len(outcomes) = Len(config.downloads))
    /\ Completed => (send_calls = 1 <=> FailedTargets > 0)
    /\ (Completed /\ FailedTargets = 0) =>
           (send_calls = 0 /\ outbox = <<>> /\ exit_code = 0)

\* a completed run of two downloads, one of them failing, with its one mail
C3_Witness ==
    /\ Completed
    /\ Len(outcomes) = 2
    /\ FailedTargets = 1
    /\ send_calls = 1
    /\ Len(outbox) = 1

\* C4: a download has an entry in the report (names and msgs) if and only
\* if its check raised or gave a status other than 200; when the first HEAD
\* request is answered 200, validate_url returns 200 and no entry is made.
C4_ReportedIffFailed ==
    /\ Len(names) = FailedTargets
    /\ Len(msgs) = FailedTargets
    /\ \A k \in 1..FailedTargets :
          /\ k <= Len(names) => names[k] = config.downloads[FailedOutcomes[k].index].name
          /\ k <= Len(msgs) => msgs[k][1] = config.downloads[FailedOutcomes[k].index].name
    /\ (returned.state # "none" /\ first_status = 200) =>
          /\ returned = [state |-> "value", status_code |-> 200]
          /\ ~Failed(outcomes[Len(outcomes)])

\* the first download failed and is reported; the second was answered 200 at
\* its first request and is not
C4_Witness ==
    /\ Len(outcomes) = 2
    /\ Failed(outcomes[1])
    /\ returned.state = "value"
    /\ first_status = 200
    /\ Len(sent_requests) = 1
    /\ names = <<config.downloads[1].name>>

\* C5: redirect-following is capped at 5 hops: on a chain of redirect-class
\* responses with a Location header validate_url sends at most 5 follow-up
\* requests, and on a chain that redirects more than 5 times it returns the
\* status of the response to the 5th follow-up request.
C5_CappedAtFiveHops ==
    /\ redirects_seen = Received => FollowUps <= 5
    /\ (returned.state = "value" /\ redirects_seen > 5) =>
           returned.status_code = fifth_hop

\* C6: on a chain of exactly 5 redirect-class responses with a Location
\* header followed by a 200, validate_url follows all 5 and returns 200:
\* it does not return while the chain is still redirecting, and it returns
\* the 200 that answers the 5th follow-up request.
C6_FiveRedirectsThenOk ==
    returned.state = "value" =>
        /\ ~(redirects_seen = Received /\ Received <= 5)
        /\ (redirects_seen = 5 /\ Received = 6 /\ response.status_code = 200) =>
               returned.status_code = 200

\* C7: on a chain that starts with 6 or more redirect-class responses with
\* a Location header, validate_url returns a redirect-class status and logs
\* the 'Too many redirects' warning exactly once.
C7_SixRedirectsStopAtCap ==
    (returned.state = "value"
     /\ (redirects_seen >= 6 \/ redirects_seen = Received)) =>
        /\ IsRedirectClass(returned.status_code)
        /\ warnings = 1

\* C8: when validate_url logs the 'Too many redirects' warning, a redirect
\* was left unfollowed and the status returned is redirect-class; a check
\* that ends on a status outside the redirect class logs no warning.
C8_WarningOnlyAtCap ==
    (returned.state = "value" /\ warnings > 0) =>
        /\ IsRedirectClass(returned.status_code)
        /\ response.location

\* C9: a response with any status in 300..399 and a Location header is
\* followed as long as the cap is not reached: validate_url returns on such
\* a response only at the cap.
C9_Every3xxFollowed ==
    (returned.state = "value" /\ IsRedirectClass(response.status_code)
     /\ response.location) =>
        checks_for_3xx >= max_3xx_checks

\* C10: on a redirect-class response without a Location header, at any hop,
\* validate_url sends no further request and returns that status; nothing
\* is raised and the download is reported with the HTTP-status detail.
C10_NoLocationReturnsStatus ==
    [][(pc = "while" /\ IsRedirectClass(response.status_code) /\ ~response.location) =>
          /\ sent_requests' = sent_requests
          /\ returned' = [state |-> "value", status_code |-> response.status_code]
          /\ names' = Append(names, config.downloads[i].name)
          /\ msgs' = Append(msgs, status_detail(config.downloads[i].name,
                                                response.status_code,
                                                config.downloads[i].url))
          /\ outcomes'[Len(outcomes')] =
                 [index |-> i, raised |-> FALSE, status_code |-> response.status_code]
      ]_vars

\* a check that followed a redirect and then ended on a redirect-class
\* response without a Location header
C10_Witness ==
    /\ returned.state = "value"
    /\ checks_for_3xx >= 1
    /\ IsRedirectClass(response.status_code)
    /\ ~response.location
    /\ returned.status_code = response.status_code
    /\ msgs # <<>>

\* C11: a request that raises, at the first or at a later hop, is not
\* retried: the step in which it is raised records the download once, with
\* the exception detail, and moves the loop to the next download; no status
\* is returned, and the next request sent is the first request of the next
\* download.
C11_RaiseIsNotRetried ==
    /\ [](returned.state = "raised" =>
             /\ pc \in {"for", "exit"}
             /\ Len(outcomes) = i - 1
             /\ outcomes[Len(outcomes)] =
                    [index |-> i - 1, raised |-> TRUE, status_code |-> 0])
    /\ [][(Len(outcomes') = Len(outcomes) + 1 /\ outcomes'[Len(outcomes')].raised) =>
             /\ returned'.state = "raised"
             /\ errors' = errors + 1
             /\ names' = Append(names, config.downloads[i].name)
             /\ msgs' = Append(msgs, exception_detail(config.downloads[i].name,
                                                      config.downloads[i].url))
             /\ i' = i + 1
         ]_vars
    /\ [][(returned.state = "raised"
           /\ (pc' = "while" \/ Len(outcomes') > Len(outcomes))) =>
             /\ Len(sent_requests') = 1
             /\ sent_requests'[1].url = config.downloads[Len(outcomes) + 1].url
         ]_vars

\* a check whose second follow-up request raised, recorded with the
\* exception detail
C11_Witness ==
    /\ returned.state = "raised"
    /\ Len(sent_requests) = 3
    /\ msgs # <<>>
    /\ msgs[Len(msgs)] = exception_detail(config.downloads[i - 1].name,
                                          config.downloads[i - 1].url)

\* the configuration has the six required keys, a recipient, and a name and
\* a url on every download
WellFormed(c) ==
    /\ c.file = "ok"
    /\ RequiredKeys \subseteq c.keys
    /\ Len(c.recipients) >= 1
    /\ \A n \in 1..Len(c.downloads) :
          c.downloads[n].name # Absent /\ c.downloads[n].url # Absent

\* C12: with an invalid configuration the run ends before any HEAD request,
\* sends no mail and exits with 1; every run that sends a HEAD request has
\* a configuration with the six keys, a recipient, and name and url on
\* every download.
C12_InvalidConfigAborts ==
    /\ (pc # "start" /\ ~WellFormed(config)) =>
          /\ pc = "exit"
          /\ exit_code = 1
          /\ sent_requests = <<>>
          /\ outcomes = <<>>
          /\ send_calls = 0
          /\ outbox = <<>>
    /\ sent_requests # <<>> => WellFormed(config)

\* a run over a configuration with an empty recipients list, ended with 1
C12_Witness ==
    /\ pc = "exit"
    /\ environ = {"HOME", "USER"}
    /\ config.file = "ok"
    /\ RequiredKeys \subseteq config.keys
    /\ config.recipients = <<>>
    /\ exit_code = 1
    /\ sent_requests = <<>>

\* C13: no run that passed validation and completed its checks exits with
\* the code of a run aborted by a configuration error.
C13_ConfigErrorCodeDistinct ==
    Completed => exit_code # config_error_code

\* the names of the failing downloads, in the order of the configuration
FailedNames ==
    [k \in 1..FailedTargets |-> config.downloads[FailedOutcomes[k].index].name]

\* the strings of a list, with ", " between them
RECURSIVE CommaList(_)
CommaList(strings) ==
    IF strings = <<>> THEN <<>>
    ELSE IF Len(strings) = 1 THEN <<Head(strings)>>
    ELSE <<Head(strings), ", ">> \o CommaList(Tail(strings))

\* C14 as stated: the Subject of the mail that is sent equals the names of
\* the failing downloads joined with ", " in configuration order.
C14_SubjectIsNames ==
    \A m \in 1..Len(outbox) : outbox[m].Subject = CommaList(FailedNames)

\* C14 as amended: the Subject of the mail that is sent is the names of the
\* failing downloads joined with ", " in configuration order, followed by
\* " unavailable".
C14_SubjectIsNamesUnavailable ==
    \A m \in 1..Len(outbox) :
        outbox[m].Subject = CommaList(FailedNames) \o <<" unavailable">>

\* a mail sent for the failing downloads A then B
C14_Witness ==
    /\ Len(outbox) = 1
    /\ FailedTargets = 2
    /\ FailedNames = <<"A", "B">>
    /\ outbox[1].Subject = <<"A", ", ", "B", " unavailable">>

\* the detail block of a failed check of the download at index n
DetailOf(o) ==
    IF o.raised
    THEN exception_detail(config.downloads[o.index].name, config.downloads[o.index].url)
    ELSE status_detail(config.downloads[o.index].name, o.status_code,
                       config.downloads[o.index].url)

\* the blocks of a list, with the separator "\n\n" between them
RECURSIVE BlankLineJoined(_)
BlankLineJoined(blocks) ==
    IF blocks = <<>> THEN <<>>
    ELSE IF Len(blocks) = 1 THEN Head(blocks)
    ELSE Head(blocks) \o <<"\n\n">> \o BlankLineJoined(Tail(blocks))

\* between two blocks of the text there is one blank line: the separator
\* "\n\n" does not come after a line that is already ended by a newline
OneBlankLineBetweenBlocks(text) ==
    \A p \in 2..Len(text) : text[p] = "\n\n" => text[p - 1] # "\n"

\* C15: the body of the mail has one detail block per failing download, in
\* configuration order, with exactly one blank line between consecutive
\* blocks; a status failure has the status detail and an exception the
\* exception detail, and names[k] and msgs[k] are about the same download.
C15_BodyOneBlockPerFailure ==
    /\ Len(msgs) = FailedTargets
    /\ Len(names) = FailedTargets
    /\ \A k \in 1..FailedTargets :
          /\ k <= Len(msgs) => msgs[k] = DetailOf(FailedOutcomes[k])
          /\ k <= Len(names) => names[k] = FailedNames[k]
    /\ \A m \in 1..Len(outbox) :
          /\ outbox[m].content =
                 BlankLineJoined([k \in 1..FailedTargets |-> DetailOf(FailedOutcomes[k])])
          /\ OneBlankLineBetweenBlocks(outbox[m].content)

\* C16: an exception of send_email is only logged: the process exits with
\* the failure count, the code it exits with when the mail goes out.
C16_SendFailureKeepsExitCode ==
    Completed => /\ exit_code = FailedTargets % (2 ^ ExitStatusBits)
                 /\ (send_failed # "none" => send_calls = 1)

\* a run with two failing downloads whose mail could not be sent (login
\* refused) and that exited with 2
C16_Witness ==
    /\ Completed
    /\ send_failed = "login"
    /\ outbox = <<>>
    /\ FailedTargets = 2
    /\ exit_code = 2

\* C17: a response with a status outside the redirect class, at the first
\* request or at a later hop, ends the loop: no further request is sent and
\* that status is returned.
C17_NonRedirectEndsLoop ==
    [][(pc = "while" /\ ~IsRedirectClass(response.status_code)) =>
          /\ sent_requests' = sent_requests
          /\ returned' = [state |-> "value", status_code |-> response.status_code]
          /\ outcomes' = Append(outcomes, [index |-> i, raised |-> FALSE,
                                           status_code |-> response.status_code])
      ]_vars

\* a check that followed two redirects and returned the 404 that came next
C17_Witness ==
    /\ returned = [state |-> "value", status_code |-> 404]
    /\ Len(sent_requests) = 3
    /\ response.status_code = 404

\* the User-Agent the configuration asks for
ConfiguredAgent ==
    IF "user_agent" \in config.keys
    THEN config.user_agent
    ELSE "<USER>'s URL availability checker"

\* C18: the first HEAD request of a check has the configured User-Agent
\* header and the configured timeout; every follow-up request has the same
\* timeout and no User-Agent header.
C18_FollowUpsDropUserAgent ==
    sent_requests # <<>> =>
        /\ sent_requests[1].headers = {<<"User-Agent", ConfiguredAgent>>}
        /\ sent_requests[1].timeout = config.timeout
        /\ "timeout" \in config.keys
        /\ \A n \in 2..Len(sent_requests) :
              /\ sent_requests[n].timeout = sent_requests[1].timeout
              /\ sent_requests[n].headers = {}

\* a check with a follow-up request, under a configured timeout of 9 and a
\* configured User-Agent
C18_Witness ==
    /\ Len(sent_requests) >= 2
    /\ config.user_agent = "custom agent"
    /\ sent_requests[1].headers = {<<"User-Agent", "custom agent">>}
    /\ sent_requests[2] = [url |-> "<Location>", timeout |-> 9, headers |-> {}]

\* C19: a check sends at most 7 HEAD requests (the first and at most 6
\* follow-ups) whatever the servers answer, so that a run over N downloads,
\* which checks each once, sends at most 7 * N, and every run reaches its exit.
C19_BoundedRequestsAndExit ==
    /\ [](/\ Len(sent_requests) <= 7
          /\ FollowUps <= 6
          /\ Len(outcomes) <= Len(config.downloads)
          /\ pc = "while" =>
                7 * Len(outcomes) + Len(sent_requests) <= 7 * Len(config.downloads))
    /\ <>(pc = "exit")

\* a check of a redirect cycle, at its 7th request
C19_Witness ==
    /\ Len(sent_requests) = 7
    /\ redirects_seen = 7
    /\ returned.state = "value"

\* s is the beginning of t
IsPrefix(s, t) == Len(s) <= Len(t) /\ \A n \in 1..Len(s) : s[n] = t[n]

\* C20: errors = len(names) = len(msgs), at most the number of downloads
\* processed; a download adds at most one to the three together, and no
\* entry is removed or changed.
C20_CountsMoveTogether ==
    /\ [](/\ errors = Len(names)
          /\ errors = Len(msgs)
          /\ errors <= Len(outcomes))
    /\ [][/\ errors' \in {errors, errors + 1}
          /\ errors' = errors + 1 => Len(outcomes') = Len(outcomes) + 1
          /\ IsPrefix(names, names')
          /\ IsPrefix(msgs, msgs')
         ]_vars

\* two downloads processed, both failed
C20_Witness ==
    /\ Len(outcomes) = 2
    /\ errors = 2
    /\ Len(names) = 2
    /\ Len(msgs) = 2

====
